---- MODULE Spec2Model ----
(***************************************************************************)
(* The interview pipeline of interview_assistant: the Flask session and    *)
(* the sqlite store driven by app.py (upload, next_question, answer), and  *)
(* the answer scorer of scripts/agent.py and scripts/utils/scoring.py.     *)
(*                                                                         *)
(* Text is a sequence of one-character strings, so that lower(), strip(),  *)
(* split(), the substring test and the number pattern are computed on the  *)
(* characters as Python computes them.  A score is an integer number of    *)
(* 10^-FracDigits units (Scale units make 1.0).                            *)
(***************************************************************************)
EXTENDS Integers, Sequences, FiniteSets, TLC

(* ------------------------------ bounds -------------------------------- *)

\* Decimal places kept of a parsed number (the sample outputs have fewer).
FracDigits == 4

Scale == 10 ^ FracDigits

(* ------------------------- Python str helpers -------------------------- *)

Whitespace == {" ", "\t", "\n"}

Digits == <<"0","1","2","3","4","5","6","7","8","9">>

UpperCase ==
  <<"A","B","C","D","E","F","G","H","I","J","K","L","M",
    "N","O","P","Q","R","S","T","U","V","W","X","Y","Z">>

LowerCase ==
  <<"a","b","c","d","e","f","g","h","i","j","k","l","m",
    "n","o","p","q","r","s","t","u","v","w","x","y","z">>

IsDigit(c) == \E i \in 1..Len(Digits) : Digits[i] = c

DigitVal(c) == (CHOOSE i \in 1..Len(Digits) : Digits[i] = c) - 1

LowerChar(c) ==
  IF \E i \in 1..Len(UpperCase) : UpperCase[i] = c
  THEN LowerCase[CHOOSE i \in 1..Len(UpperCase) : UpperCase[i] = c]
  ELSE c

SetMin(S) == CHOOSE x \in S : \A y \in S : x <= y

SetMax(S) == CHOOSE x \in S : \A y \in S : x >= y

\* str.lower()
lower(t) == [i \in 1..Len(t) |-> LowerChar(t[i])]

\* str.strip(): leading and trailing whitespace removed
strip(t) ==
  LET keep == {i \in 1..Len(t) : t[i] \notin Whitespace}
  IN  IF keep = {} THEN <<>> ELSE SubSeq(t, SetMin(keep), SetMax(keep))

\* str.split(): the maximal runs of non-whitespace characters, in order
RECURSIVE split(_)
split(t) ==
  LET keep == {i \in 1..Len(t) : t[i] \notin Whitespace}
  IN  IF keep = {} THEN <<>>
      ELSE LET b    == SetMin(keep)
               stop == {i \in b..Len(t) : t[i] \in Whitespace}
               e    == IF stop = {} THEN Len(t) ELSE SetMin(stop) - 1
           IN  <<SubSeq(t, b, e)>> \o split(SubSeq(t, e + 1, Len(t)))

\* sub in t
Contains(sub, t) ==
  \E i \in 1..(Len(t) - Len(sub) + 1) : SubSeq(t, i, i + Len(sub) - 1) = sub

\* " ".join(parts)
RECURSIVE JoinSpace(_)
JoinSpace(parts) ==
  IF parts = <<>> THEN <<>>
  ELSE IF Len(parts) = 1 THEN parts[1]
  ELSE parts[1] \o <<" ">> \o JoinSpace(Tail(parts))

(* ------------------------ scripts/utils/scoring.py --------------------- *)

NoMatch == [found |-> FALSE, int |-> 0, frac |-> <<>>]

\* Number of consecutive characters of t from position j on that lie in S.
RunLen(t, j, S) ==
  LET stop == {k \in j..Len(t) : t[k] \notin S}
  IN  IF j > Len(t) THEN 0
      ELSE IF stop = {} THEN Len(t) - j + 1 ELSE SetMin(stop) - j

DigitSet == {Digits[i] : i \in 1..Len(Digits)}

\* _NUMBER_RE tried at position i: (?<!\d)(10(?:\.0+)?|\d(?:\.\d+)?)(?!\d)
NumberMatchAt(t, i) ==
  LET n      == Len(t)
      ch(j)  == IF j >= 1 /\ j <= n THEN t[j] ELSE ""
      dig(j) == j >= 1 /\ j <= n /\ IsDigit(t[j])
      zeros  == RunLen(t, i + 3, {"0"})
      fracs  == RunLen(t, i + 2, DigitSet)
  IN  IF dig(i - 1) THEN NoMatch
      ELSE IF ch(i) = "1" /\ ch(i + 1) = "0" /\ ch(i + 2) = "."
              /\ zeros >= 1 /\ ~dig(i + 3 + zeros)
      THEN [found |-> TRUE, int |-> 10, frac |-> SubSeq(t, i + 3, i + 2 + zeros)]
      ELSE IF ch(i) = "1" /\ ch(i + 1) = "0" /\ ~dig(i + 2)
      THEN [found |-> TRUE, int |-> 10, frac |-> <<>>]
      ELSE IF dig(i) /\ ch(i + 1) = "." /\ dig(i + 2)
      THEN [found |-> TRUE, int |-> DigitVal(t[i]),
            frac |-> SubSeq(t, i + 2, i + 1 + fracs)]
      ELSE IF dig(i) /\ ~dig(i + 1)
      THEN [found |-> TRUE, int |-> DigitVal(t[i]), frac |-> <<>>]
      ELSE NoMatch

\* _NUMBER_RE.search(text): the leftmost match
NumberSearch(t) ==
  LET hits == {i \in 1..Len(t) : NumberMatchAt(t, i).found}
  IN  IF hits = {} THEN NoMatch ELSE NumberMatchAt(t, SetMin(hits))

\* float(m.group(1)), in Scale units
FloatOf(m) ==
  LET k == IF Len(m.frac) < FracDigits THEN Len(m.frac) ELSE FracDigits
      RECURSIVE Sum(_)
      Sum(j) == IF j = 0 THEN 0
                ELSE Sum(j - 1) + DigitVal(m.frac[j]) * (10 ^ (FracDigits - j))
  IN  m.int * Scale + Sum(k)

NoScore == [none |-> TRUE, val |-> 0]

\* _extract_score(text)
ExtractScore(t) ==
  LET m == NumberSearch(t)
  IN  IF ~m.found THEN NoScore
      ELSE IF 0 <= FloatOf(m) /\ FloatOf(m) <= 10 * Scale
           THEN [none |-> FALSE, val |-> FloatOf(m)]
           ELSE NoScore

\* a variant of Round2 that keeps every digit of the model's number
Round2Unrounded(v, tieUp) == v

\* round(v, 2).  A decimal tie that is a binary fraction goes to the even
\* hundredth; any other tie follows the double nearest to the decimal, which
\* lies above or below it: tieUp is that direction.
Round2(v, tieUp) ==
  LET cent == Scale \div 100
      q    == v \div cent
      r    == v % cent
  IN  IF 2 * r < cent THEN q * cent
      ELSE IF 2 * r > cent THEN (q + 1) * cent
      ELSE IF (2 * q + 1) % 25 = 0
           THEN (IF q % 2 = 0 THEN q ELSE q + 1) * cent
           ELSE (IF tieUp THEN q + 1 ELSE q) * cent

LlmKinds == {"invoke", "predict", "callable"}

\* _call_llm(llm, prompt): out is what the model object does when called
CallLlm(kind, out) ==
  IF kind \in {"invoke", "predict"}
  THEN [raised |-> out.raises, text |-> IF out.raises THEN <<>> ELSE out.text]
  ELSE [raised |-> FALSE, text |-> IF out.raises THEN <<>> ELSE out.text]

Retries == 1

HeuristicWords == 80

DepthKeywords ==
  { <<"b","e","c","a","u","s","e">>,
    <<"a","r","c","h","i","t","e","c","t","u","r","e">>,
    <<"s","c","a","l","a","b","l","e">>,
    <<"t","r","a","d","e","o","f","f">> }

Min2(a, b) == IF a <= b THEN a ELSE b

Max2(a, b) == IF a >= b THEN a ELSE b

\* a variant of Heuristic without the depth bonus
HeuristicNoDepthBonus(answer) ==
  LET words == Len(split(answer))
      lengthPart == (Min2(words, HeuristicWords) * 4 * Scale) \div HeuristicWords
  IN  IF strip(answer) = <<>> THEN 0
      ELSE Max2(0, Min2(10 * Scale, 4 * Scale + lengthPart))

\* a variant of Heuristic whose length part is not capped at 80 words
HeuristicUncapped(answer) ==
  LET words == Len(split(answer))
      lengthPart == (words * 4 * Scale) \div HeuristicWords
      depthBonus == IF \E k \in DepthKeywords : Contains(k, lower(answer))
                    THEN 2 * Scale ELSE 0
  IN  IF strip(answer) = <<>> THEN 0
      ELSE Max2(0, Min2(10 * Scale, 4 * Scale + lengthPart + depthBonus))

\* the fallback heuristic of score_answer_with_llm, before rounding
Heuristic(answer) ==
  LET words == Len(split(answer))
      \* min(words / 80.0, 1.0) * 4.0
      lengthPart == (Min2(words, HeuristicWords) * 4 * Scale) \div HeuristicWords
      depthBonus == IF \E k \in DepthKeywords : Contains(k, lower(answer))
                    THEN 2 * Scale ELSE 0
  IN  IF strip(answer) = <<>> THEN 0
      ELSE Max2(0, Min2(10 * Scale, 4 * Scale + lengthPart + depthBonus))

\* a variant of ScoreLoop that makes both attempts whatever the first one
\* gives, and takes the number of the last attempt that has one
ScoreLoopLastWins(kind, outs, k, answer, tieUp) ==
  LET c1 == CallLlm(kind, outs[1])
      c2 == CallLlm(kind, outs[2])
      s1 == ExtractScore(c1.text)
      s2 == ExtractScore(c2.text)
  IN  IF c1.raised
      THEN [raised |-> TRUE, score |-> 0, calls |-> 1, by |-> "raise"]
      ELSE IF c2.raised
      THEN [raised |-> TRUE, score |-> 0, calls |-> 2, by |-> "raise"]
      ELSE IF ~s2.none
      THEN [raised |-> FALSE, score |-> Round2(s2.val, tieUp),
            calls |-> 2, by |-> "llm"]
      ELSE IF ~s1.none
      THEN [raised |-> FALSE, score |-> Round2(s1.val, tieUp),
            calls |-> 2, by |-> "llm"]
      ELSE [raised |-> FALSE, score |-> Round2(Heuristic(answer), tieUp),
            calls |-> 2, by |-> "heuristic"]

\* the loop of score_answer_with_llm from attempt k on
RECURSIVE ScoreLoop(_, _, _, _, _)
ScoreLoop(kind, outs, k, answer, tieUp) ==
  IF k > Retries + 1
  THEN [raised |-> FALSE, score |-> Round2(Heuristic(answer), tieUp),
        calls |-> k - 1, by |-> "heuristic"]
  ELSE LET c == CallLlm(kind, outs[k])
           s == ExtractScore(c.text)
       IN  IF c.raised
           THEN [raised |-> TRUE, score |-> 0, calls |-> k, by |-> "raise"]
           ELSE IF ~s.none
           THEN [raised |-> FALSE, score |-> Round2(s.val, tieUp),
                 calls |-> k, by |-> "llm"]
           ELSE ScoreLoop(kind, outs, k + 1, answer, tieUp)

\* score_answer_with_llm(llm, question, answer)
ScoreAnswerWithLlm(kind, outs, answer, tieUp) ==
  ScoreLoop(kind, outs, 1, answer, tieUp)

(* ---------------------------- scripts/agent.py ------------------------- *)

EXPLAIN_TRIGGERS ==
  { <<"e","x","p","l","a","i","n">>,
    <<"e","x","p","l","a","i","n"," ","p","l","e","a","s","e">>,
    <<"c","a","n"," ","y","o","u"," ","e","x","p","l","a","i","n">>,
    <<"i","d","k">>,
    <<"i"," ","d","o","n","t"," ","k","n","o","w">>,
    <<"i"," ","d","o","n","'","t"," ","k","n","o","w">>,
    <<"n","o"," ","i","d","e","a">> }

Explain == <<"e","x","p","l","a","i","n">>

ShortUtterance == 6

\* a variant of IsExplainTrigger that compares without lower-casing
IsExplainTriggerCaseSensitive(t) ==
  LET t_norm == strip(t)
  IN  \/ t_norm \in EXPLAIN_TRIGGERS
      \/ Contains(Explain, t_norm) /\ Len(split(t_norm)) <= ShortUtterance

\* _is_explain_trigger(t)
IsExplainTrigger(t) ==
  LET t_norm == strip(lower(t))
  IN  \/ t_norm \in EXPLAIN_TRIGGERS
      \/ Contains(Explain, t_norm) /\ Len(split(t_norm)) <= ShortUtterance

\* _load_llm() returns the cached HuggingFacePipeline, which has .invoke
LoadedLlm == "invoke"

RagPrompts == {"explain", "coach"}

\* _rag_answer(user_id, role, question): rag is what the index and the
\* chain do, "ok" or "raise" (no index for this id, or the model fails)
RagAnswer(prompt, rag) ==
  [raised |-> rag = "raise",
   text   |-> IF rag = "raise" THEN "" ELSE
              IF prompt = "explain" THEN "<model answer for the question>"
              ELSE "<coaching for the answer>"]

None == "<None>"

ForceNextIfEmpty == TRUE

LowScore == 4

\* a variant of NormalizeTranscript that does not trim
NormalizeTranscriptUntrimmed(transcript) == transcript

\* transcript = (transcript or "").strip()
NormalizeTranscript(transcript) == strip(transcript)

\* "No speech captured": the answer for an empty transcript
NoSpeech ==
  [raised |-> FALSE, score |-> 0,
   explanation |-> IF ForceNextIfEmpty
     THEN "No answer detected. Try speaking a bit louder or closer to the mic."
     ELSE "No answer captured; please repeat.",
   path |-> "empty", caught |-> "none",
   scoreCalls |-> 0, llmCalls |-> 0, ragCalls |-> 0]

\* the explain-trigger branch: r is what _rag_answer did
ExplainBranch(r) ==
  [raised |-> FALSE, score |-> 0,
   explanation |-> IF r.raised THEN "Explanation failed: <e>" ELSE r.text,
   path |-> "explain", caught |-> IF r.raised THEN "explain" ELSE "none",
   scoreCalls |-> 0, llmCalls |-> 0, ragCalls |-> 1]

\* a variant of ScoringFailed that lets the exception out
ScoringFailedPropagates(s) ==
  [raised |-> TRUE, score |-> 0, explanation |-> None,
   path |-> "normal", caught |-> "none",
   scoreCalls |-> 1, llmCalls |-> s.calls, ragCalls |-> 0]

\* "except Exception" around score_answer_with_llm
ScoringFailed(s) ==
  [raised |-> FALSE, score |-> 0, explanation |-> "Scoring failed: <e>",
   path |-> "normal", caught |-> "scoring",
   scoreCalls |-> 1, llmCalls |-> s.calls, ragCalls |-> 0]

\* a variant of Remediation that also coaches an answer scored 4.0 exactly
RemediationFromFour(s, rag) ==
  IF s.score <= LowScore * Scale
  THEN LET r == RagAnswer("coach", rag)
       IN  [raised |-> FALSE, score |-> s.score,
            explanation |-> IF r.raised
              THEN "Could not generate detailed explanation: <e>" ELSE r.text,
            path |-> "normal", caught |-> IF r.raised THEN "coach" ELSE "none",
            scoreCalls |-> 1, llmCalls |-> s.calls, ragCalls |-> 1]
  ELSE [raised |-> FALSE, score |-> s.score, explanation |-> None,
        path |-> "normal", caught |-> "none",
        scoreCalls |-> 1, llmCalls |-> s.calls, ragCalls |-> 0]

\* the low-score feedback and the return of the normal path
Remediation(s, rag) ==
  IF s.score < LowScore * Scale
  THEN LET r == RagAnswer("coach", rag)
       IN  [raised |-> FALSE, score |-> s.score,
            explanation |-> IF r.raised
              THEN "Could not generate detailed explanation: <e>" ELSE r.text,
            path |-> "normal", caught |-> IF r.raised THEN "coach" ELSE "none",
            scoreCalls |-> 1, llmCalls |-> s.calls, ragCalls |-> 1]
  ELSE [raised |-> FALSE, score |-> s.score, explanation |-> None,
        path |-> "normal", caught |-> "none",
        scoreCalls |-> 1, llmCalls |-> s.calls, ragCalls |-> 0]

\* handle_candidate_text_answer_fast(candidate_id, question, transcript);
\* env: what the scoring model does at each call (llm), what the retrieval
\* chain does (rag), and the direction of an inexact rounding tie (tieUp)
HandleCandidateTextAnswerFast(transcript, env) ==
  LET t == NormalizeTranscript(transcript)
  IN  IF t = <<>> THEN NoSpeech
      ELSE IF IsExplainTrigger(t)
      THEN ExplainBranch(RagAnswer("explain", env.rag))
      ELSE LET s == ScoreAnswerWithLlm(LoadedLlm, env.llm, t, env.tieUp)
           IN  IF s.raised THEN ScoringFailed(s) ELSE Remediation(s, env.rag)

(* ------------------------------ more bounds ---------------------------- *)

\* Candidate ids (uuid4 values) the uploads may draw.
MaxCand == 2

\* Rows the answers table may hold.
MaxAnswers == 3

\* Questions of the static base list that generate_25_questions shuffles
\* (25 in the source).
NumBase == 1

(* ------------------------------- the state ----------------------------- *)

VARIABLES
  session,     \* per browser: the Flask session (candidate_id, questions, q_index)
  candidates,  \* table candidates: id -> [finished, avg_score]
  answers,     \* table answers, in id (insertion) order
  nextId,      \* the ids uuid4 has handed out so far
  assigned,    \* history: the question set app.py stored for each id
  resp,        \* the response to the last request
  trial,       \* a direct call of the scorer and what it returned
  pending      \* submissions taken step by step: in flight, answered or lost

vars == <<session, candidates, answers, nextId, assigned, resp, trial, pending>>

\* one browser; it may upload again and so run several candidates
Sessions == {"browser1"}

\* session.get("candidate_id") of a session without one
NoCid == 0

(* ----------------------------- scripts/db.py --------------------------- *)

RECURSIVE Gcd(_, _)
Gcd(a, b) == IF b = 0 THEN a ELSE Gcd(b, a % b)

\* the fraction n/d in lowest terms; 0 is <<0, 1>>
Frac(n, d) == IF n = 0 THEN <<0, 1>> ELSE <<n \div Gcd(n, d), d \div Gcd(n, d)>>

\* create_candidate(cid, email): finished and avg_score take their defaults
CreateCandidate(cands, cid) ==
  [c \in (DOMAIN cands) \cup {cid} |->
     IF c = cid THEN [finished |-> FALSE, avg_score |-> <<0, 1>>] ELSE cands[c]]

\* a variant of SaveAnswer that keeps one row per candidate (INSERT OR
\* REPLACE on candidate_id)
SaveAnswerReplacing(rows, cid, question, answer, score, explanation) ==
  Append(SelectSeq(rows, LAMBDA r : r.candidate_id # cid),
         [candidate_id |-> cid, question |-> question, answer |-> answer,
          score |-> score, explanation |-> explanation])

\* save_answer(candidate_id, question, answer, score, explanation)
SaveAnswer(rows, cid, question, answer, score, explanation) ==
  Append(rows, [candidate_id |-> cid, question |-> question, answer |-> answer,
                score |-> score, explanation |-> explanation])

\* a variant of FinishCandidate that flips the flag instead of setting it
FinishCandidateFlipped(cands, cid) ==
  [c \in DOMAIN cands |->
     IF c = cid THEN [cands[c] EXCEPT !.finished = ~cands[c].finished]
     ELSE cands[c]]

\* finish_candidate(cid): UPDATE candidates SET finished=1 WHERE id=cid
FinishCandidate(cands, cid) ==
  [c \in DOMAIN cands |->
     IF c = cid THEN [cands[c] EXCEPT !.finished = TRUE] ELSE cands[c]]

\* get_candidate_answers(cid): the candidate's rows ORDER BY id ASC
GetCandidateAnswers(rows, cid) ==
  SelectSeq(rows, LAMBDA r : r.candidate_id = cid)

RECURSIVE SumScores(_)
SumScores(rows) ==
  IF rows = <<>> THEN 0 ELSE rows[1].score + SumScores(Tail(rows))

\* a variant of AvgScore that totals instead of averaging
AvgScoreTotal(rows, cid) ==
  Frac(SumScores(GetCandidateAnswers(rows, cid)), 1)

\* SELECT AVG(score) FROM answers WHERE candidate_id=cid, then "or 0"
AvgScore(rows, cid) ==
  LET mine == GetCandidateAnswers(rows, cid)
  IN  IF mine = <<>> THEN <<0, 1>> ELSE Frac(SumScores(mine), Len(mine))

\* update_candidate_score(cid)
UpdateCandidateScore(cands, rows, cid) ==
  [c \in DOMAIN cands |->
     IF c = cid THEN [cands[c] EXCEPT !.avg_score = AvgScore(rows, cid)]
     ELSE cands[c]]

\* the aggregate a is at least the aggregate b (fractions <<num, den>>)
FracGeq(a, b) == a[1] * b[2] >= b[1] * a[2]

\* ORDER BY avg_score DESC over the rows ids: every order the sort may give
\* (rows of equal avg_score come in any order)
RECURSIVE OrderByAvgDesc(_, _)
OrderByAvgDesc(cands, ids) ==
  IF ids = {} THEN {<<>>}
  ELSE UNION
    { { <<[candidate_id |-> c, avg_score |-> cands[c].avg_score]>> \o rest :
          rest \in OrderByAvgDesc(cands, ids \ {c}) } :
      c \in {c \in ids :
               \A d \in ids : FracGeq(cands[c].avg_score, cands[d].avg_score)} }

\* a variant of GetLeaderboard without "WHERE finished=1"
GetLeaderboardUnfiltered(cands) == OrderByAvgDesc(cands, DOMAIN cands)

\* get_leaderboard(): the lists it may return
GetLeaderboard(cands) ==
  OrderByAvgDesc(cands, {c \in DOMAIN cands : cands[c].finished})

(* --------------------------------- app.py ------------------------------ *)

\* base of generate_25_questions (its first NumBase entries)
BaseQuestions ==
  SubSeq(<<"Summarize your most impactful project.",
           "Explain the biggest technical challenge you solved.",
           "Which programming languages are you most comfortable with and why?",
           "Explain a time you optimized performance in a system you built.">>,
         1, NumBase)

\* random.shuffle(base); base[:25]: any order of the base list
Shuffles(base) ==
  {p \in [1..Len(base) -> {base[i] : i \in 1..Len(base)}] :
     \A i, j \in 1..Len(base) : i # j => p[i] # p[j]}

\* what generate_25_questions may do: return a shuffled list, or raise
GenOutcomes ==
  {[raises |-> FALSE, list |-> p] : p \in Shuffles(BaseQuestions)}
    \cup {[raises |-> TRUE, list |-> <<>>]}

\* an upload that never reaches generate_25_questions
NoGen == [raises |-> TRUE, list |-> <<>>]

\* the questions app.py falls back to when generate_25_questions raises
FallbackQuestions ==
  <<"Tell me about your most impactful project.",
    "Explain the concept of containers and Docker.",
    "What is your approach to debugging production issues?">>

\* transcribe_audio_whisper(path): the segments' texts joined and stripped
TranscribeAudioWhisper(segments) == strip(JoinSpace(segments))

\* what whisper may do with a clip: raise, or return these segments
AppSegments ==
  { <<>>,
    <<<<" ","W","e"," ","u","s","e","d"," ","D","o","c","k","e","r">>, <<" ","f","o","r"," ","t","h","e"," ","b","u","i","l","d",".">>>> }

Heard(segs) ==
  {[raises |-> FALSE, segments |-> g] : g \in segs}
    \cup {[raises |-> TRUE, segments |-> <<>>]}

\* what the scoring model may do when called from the interview
AppLlmOuts ==
  { [raises |-> TRUE, text |-> <<>>],
    [raises |-> FALSE, text |-> <<"3">>] }

\* the failures and outputs a call of the scorer may meet: first and second
\* are what the scoring model may do at its first and at its second call
ScorerEnvs(first, second) ==
  [llm : first \X second, rag : {"ok", "raise"}, tieUp : BOOLEAN]

NoResp ==
  [op |-> "none", status |-> 0, done |-> FALSE,
   message |-> "", transcript |-> <<>>, score |-> 0, explanation |-> "",
   scored |-> FALSE]

NoTrial == [fn |-> "none"]

\* a variant of ScoreClip in which a failed transcription is not replaced by
\* the empty transcript before scoring, and scoring fails on it
ScoreClipUnguarded(heard, env) ==
  IF heard.raises
  THEN [transcript |-> <<>>, score |-> 0, explanation |-> "Scoring failed: <e>"]
  ELSE LET result == HandleCandidateTextAnswerFast(
                       TranscribeAudioWhisper(heard.segments), env)
       IN  [transcript |-> TranscribeAudioWhisper(heard.segments),
            score |-> IF result.raised THEN 0 ELSE result.score,
            explanation |-> IF result.raised THEN "Scoring failed: <e>"
                            ELSE result.explanation]

\* candidate_answer_audio from "Transcribe audio" to "Scoring failed": the
\* transcript, score and explanation it goes on to save
ScoreClip(heard, env) ==
  LET transcript == IF heard.raises THEN <<>>
                    ELSE TranscribeAudioWhisper(heard.segments)
      result == HandleCandidateTextAnswerFast(transcript, env)
  IN  [transcript |-> transcript,
       score |-> IF result.raised THEN 0 ELSE result.score,
       explanation |-> IF result.raised THEN "Scoring failed: <e>"
                       ELSE result.explanation]

\* a request that never reaches transcription
NoClip == [transcript |-> <<>>, score |-> 0, explanation |-> None]

\* every outcome of that stretch for the clips and the failures considered
AppClips ==
  {ScoreClip(h, e) : h \in Heard(AppSegments), e \in ScorerEnvs(AppLlmOuts, AppLlmOuts)}

\* a variant of Done that fires one question early
DoneOneEarly(q_index, questions) == q_index + 1 >= Len(questions)

\* q_index >= len(questions): the question set is used up
Done(q_index, questions) == q_index >= Len(questions)

\* finish_candidate(cid); update_candidate_score(cid)
Finalize(cands, rows, cid) ==
  UpdateCandidateScore(FinishCandidate(cands, cid), rows, cid)

Init ==
  /\ session = [s \in Sessions |->
                  [candidate_id |-> NoCid, questions |-> <<>>, q_index |-> 0]]
  /\ candidates = <<>>
  /\ answers = <<>>
  /\ nextId = 1
  /\ assigned = <<>>
  /\ resp = NoResp
  /\ trial = NoTrial
  /\ pending = <<>>

\* POST /candidate (candidate_upload_page).  file: "invalid" (none, or not
\* .pdf), "unreadable" (extract_text_from_pdf raises) or "ok"; gen: the list
\* generate_25_questions returns, or that it raises.
Upload(s, file, gen) ==
  LET cid == nextId
      questions == IF gen.raises THEN FallbackQuestions ELSE gen.list
      page(err) == [NoResp EXCEPT !.op = "upload", !.status = 200,
                                  !.message = err]
  IN  IF file = "invalid"
      THEN /\ resp' = page("Upload a valid PDF file (.pdf).")
           /\ UNCHANGED <<session, candidates, answers, nextId, assigned, trial, pending>>
      ELSE /\ nextId <= MaxCand
           /\ nextId' = nextId + 1
           /\ IF file = "unreadable"
              THEN /\ session' = [session EXCEPT ![s].candidate_id = cid]
                   /\ resp' = page("Failed to read PDF: <e>")
                   /\ UNCHANGED <<candidates, assigned>>
              ELSE /\ candidates' = CreateCandidate(candidates, cid)
                   /\ session' = [session EXCEPT ![s] =
                        [candidate_id |-> cid, questions |-> questions,
                         q_index |-> 0]]
                   /\ assigned' = [c \in (DOMAIN assigned) \cup {cid} |->
                        IF c = cid THEN questions ELSE assigned[c]]
                   /\ resp' = page("")
           /\ UNCHANGED <<answers, trial, pending>>

\* a variant of NextQuestion that moves the cursor when it hands out a
\* question
NextQuestionAdvances(s) ==
  LET cid == session[s].candidate_id
      q_index == session[s].q_index
      questions == session[s].questions
      json == [NoResp EXCEPT !.op = "next_question", !.status = 200]
  IN  /\ IF cid = NoCid
         THEN /\ resp' = [json EXCEPT !.done = TRUE, !.message = "Session expired."]
              /\ UNCHANGED <<candidates, session>>
         ELSE IF Done(q_index, questions)
         THEN /\ candidates' = Finalize(candidates, answers, cid)
              /\ resp' = [json EXCEPT !.done = TRUE,
                                      !.message = "Interview complete!"]
              /\ UNCHANGED session
         ELSE /\ resp' = [json EXCEPT !.message = questions[q_index + 1]]
              /\ session' = [session EXCEPT ![s].q_index = q_index + 1]
              /\ UNCHANGED candidates
      /\ UNCHANGED <<answers, nextId, assigned, trial, pending>>

\* GET /candidate/next_question (candidate_next_question)
NextQuestion(s) ==
  LET cid == session[s].candidate_id
      q_index == session[s].q_index
      questions == session[s].questions
      json == [NoResp EXCEPT !.op = "next_question", !.status = 200]
  IN  /\ IF cid = NoCid
         THEN /\ resp' = [json EXCEPT !.done = TRUE, !.message = "Session expired."]
              /\ UNCHANGED candidates
         ELSE IF Done(q_index, questions)
         THEN /\ candidates' = Finalize(candidates, answers, cid)
              /\ resp' = [json EXCEPT !.done = TRUE,
                                      !.message = "Interview complete!"]
         ELSE /\ resp' = [json EXCEPT !.message = questions[q_index + 1]]
              /\ UNCHANGED candidates
      /\ UNCHANGED <<session, answers, nextId, assigned, trial, pending>>

\* a variant of SessionExpired that answers like a request without audio
SessionExpiredAsNoAudio(json) ==
  /\ resp' = [json EXCEPT !.status = 400, !.message = "No audio received"]
  /\ UNCHANGED <<session, candidates, answers>>

\* "if not cid" of candidate_answer_audio: the 440
SessionExpired(json) ==
  /\ resp' = [json EXCEPT !.status = 440, !.message = "Session expired."]
  /\ UNCHANGED <<session, candidates, answers>>

\* a variant of AudioConversionFailed that has moved the cursor already
AudioConversionFailedAdvanced(s) ==
  /\ resp' = [NoResp EXCEPT !.op = "answer", !.status = 500,
                            !.message = "Audio conversion failed"]
  /\ session' = [session EXCEPT ![s].q_index = session[s].q_index + 1]
  /\ UNCHANGED <<candidates, answers>>

\* "except Exception" around AudioSegment.from_file and export: the 500
AudioConversionFailed(s) ==
  /\ resp' = [NoResp EXCEPT !.op = "answer", !.status = 500,
                            !.message = "Audio conversion failed"]
  /\ UNCHANGED <<session, candidates, answers>>

\* POST /candidate/answer (candidate_answer_audio).  audio: "none" (no file
\* in the request), "bad" (AudioSegment.from_file or export raises) or "ok";
\* clip: what transcription and scoring make of the clip (ScoreClip).
Submit(s, audio, clip) ==
  LET cid == session[s].candidate_id
      q_index == session[s].q_index
      questions == session[s].questions
      json == [NoResp EXCEPT !.op = "answer", !.status = 200]
      current_question == questions[q_index + 1]
      transcript == clip.transcript
      score == clip.score
      explanation == clip.explanation
      saved == SaveAnswer(answers, cid, current_question, transcript, score,
                          explanation)
      done == Done(q_index + 1, questions)
  IN  /\ IF cid = NoCid
         THEN SessionExpired(json)
         ELSE IF audio = "none"
         THEN /\ resp' = [json EXCEPT !.status = 400,
                                      !.message = "No audio received"]
              /\ UNCHANGED <<session, candidates, answers>>
         ELSE IF audio = "bad"
         THEN AudioConversionFailed(s)
         ELSE IF Done(q_index, questions)
         THEN /\ candidates' = Finalize(candidates, answers, cid)
              /\ resp' = [json EXCEPT !.done = TRUE,
                                      !.message = "Interview already complete!"]
              /\ UNCHANGED <<session, answers>>
         ELSE /\ Len(answers) < MaxAnswers
              /\ answers' = saved
              /\ session' = [session EXCEPT ![s].q_index = q_index + 1]
              /\ candidates' = IF done THEN Finalize(candidates, saved, cid)
                               ELSE candidates
              /\ resp' = [json EXCEPT !.done = done, !.transcript = transcript,
                                      !.score = score,
                                      !.explanation = IF explanation = None
                                                      THEN "" ELSE explanation,
                                      !.scored = TRUE]
      /\ UNCHANGED <<nextId, assigned, trial, pending>>

\* the browser loses its session cookie (closed, or expired): the next
\* request arrives with an empty session
ExpireSession(s) ==
  /\ session[s].candidate_id # NoCid
  /\ session' = [session EXCEPT ![s] =
       [candidate_id |-> NoCid, questions |-> <<>>, q_index |-> 0]]
  /\ resp' = NoResp
  /\ UNCHANGED <<candidates, answers, nextId, assigned, trial, pending>>

Next ==
  \E s \in Sessions :
    \/ ExpireSession(s)
    \/ \E file \in {"invalid", "unreadable", "ok"} :
         \E gen \in (IF file = "ok" THEN GenOutcomes ELSE {NoGen}) :
            Upload(s, file, gen)
    \/ NextQuestion(s)
    \/ \E audio \in {"none", "bad", "ok"} :
         \E clip \in (IF audio = "ok" THEN AppClips ELSE {NoClip}) :
            Submit(s, audio, clip)

Spec == Init /\ [][Next]_vars

(* ------------------------ direct calls of the scorer ------------------- *)

\* transcripts handed to the scorer
ScorerTranscripts ==
  { <<>>,
    <<" ">>,
    <<"\t"," ","\n">>,
    <<"i","d","k">>,
    <<"I","D","K">>,
    <<" ","I","d","k"," ">>,
    <<"i","D","k","\n">>,
    <<"I"," ","d","o","n","'","t"," ","k","n","o","w">>,
    <<"c","a","n"," ","y","o","u"," ","e","x","p","l","a","i","n">>,
    <<"I"," ","e","x","p","l","a","i","n","e","d"," ","i","t">>,
    <<"p","l","e","a","s","e"," ","e","x","p","l","a","i","n"," ","w","h",
      "a","t"," ","a"," ","b"," ","c"," ","d">>,
    <<"y","e","s">>,
    <<"w","e"," ","u","s","e","d"," ","d","o","c","k","e","r"," ","b","e",
      "c","a","u","s","e"," ","c","a","c","h","e","s"," ","s","c","a","l",
      "e">>,
    <<"B","e","c","a","u","s","e"," ","t","h","e"," ","a","r","c","h","i",
      "t","e","c","t","u","r","e"," ","n","e","e","d","e","d"," ","t","o",
      " ","s","c","a","l","e",","," ","I"," ","r","e","d","e","s","i","g",
      "n","e","d"," ","t","h","e"," ","c","a","c","h","i","n","g"," ","t",
      "r","a","d","e","o","f","f"," ","l","a","y","e","r">> }

\* raw outputs of the scoring model
ScorerTexts ==
  { <<"7">>,
    <<"1","0">>,
    <<"1","0",".","0">>,
    <<"1","0","0">>,
    <<"1","0",".","5">>,
    <<"-","3">>,
    <<"a","b","c">>,
    <<>>,
    <<"3">>,
    <<"3",".","9","9">>,
    <<"4">>,
    <<"3",".","1","4","1","6">>,
    <<"2",".","6","7","5">>,
    <<"0",".","1","2","5">>,
    <<"9",".","9","9","9">>,
    <<"S","c","o","r","e",":"," ","8","/","1","0">>,
    <<"C","l","a","r","i","t","y",":"," ","8",","," ","D","e","p","t","h",
      ":"," ","5">> }

Raises == [raises |-> TRUE, text |-> <<>>]

Says(texts) == {[raises |-> FALSE, text |-> x] : x \in texts}

\* what the scoring model may do at its first call
ScorerFirst == Says(ScorerTexts) \cup {Raises}

\* what it may do at the retry
ScorerSecond == Says({<<"7">>, <<"a","b","c">>}) \cup {Raises}

\* handle_candidate_text_answer_fast called on its own
TryHandle(t, env) ==
  /\ trial.fn = "none"
  /\ trial' = [fn |-> "handle", transcript |-> t, env |-> env,
               out |-> HandleCandidateTextAnswerFast(t, env)]
  /\ UNCHANGED <<session, candidates, answers, nextId, assigned, resp, pending>>

\* score_answer_with_llm called on its own, with any kind of model object
TryScore(kind, outs, answer, tieUp) ==
  /\ trial.fn = "none"
  /\ trial' = [fn |-> "score", kind |-> kind, llm |-> outs, answer |-> answer,
               tieUp |-> tieUp,
               out |-> ScoreAnswerWithLlm(kind, outs, answer, tieUp)]
  /\ UNCHANGED <<session, candidates, answers, nextId, assigned, resp, pending>>

\* a spoken answer with two of the depth keywords
SpokenAnswer ==
  <<"B","e","c","a","u","s","e"," ","t","h","e"," ","a","r","c","h","i",
    "t","e","c","t","u","r","e"," ","n","e","e","d","e","d"," ","t","o",
    " ","s","c","a","l","e",","," ","I"," ","r","e","d","e","s","i","g",
    "n","e","d"," ","t","h","e"," ","c","a","c","h","i","n","g"," ","t",
    "r","a","d","e","o","f","f"," ","l","a","y","e","r">>

\* what whisper may return for a clip: nothing, or the spoken answer as one
\* segment (whisper's segment texts begin with a space)
ClipSegments == {<<>>, <<(<<" ">> \o SpokenAnswer)>>}

\* candidate_answer_audio from "Transcribe audio" to "Save in DB", run on
\* its own for one clip: what it scores and the row it saves
TryClip(heard, env) ==
  /\ trial.fn = "none"
  /\ trial' = [fn |-> "clip", heard |-> heard, env |-> env,
               out |-> ScoreClip(heard, env),
               rows |-> SaveAnswer(<<>>, 1, FallbackQuestions[1],
                                   ScoreClip(heard, env).transcript,
                                   ScoreClip(heard, env).score,
                                   ScoreClip(heard, env).explanation)]
  /\ UNCHANGED <<session, candidates, answers, nextId, assigned, resp, pending>>

\* Words of the longest answer handed to the fallback heuristic (above the
\* 80 of its length factor).
MaxWords == 82

\* first words of those answers: a plain word, or one that holds a depth
\* keyword (in any letter case, with punctuation, inside a longer word)
FirstWords ==
  { <<"W","e">>,
    <<"B","e","c","a","u","s","e">>,
    <<"A","R","C","H","I","T","E","C","T","U","R","E",",">>,
    <<"u","n","s","c","a","l","a","b","l","e">>,
    <<"t","r","a","d","e","o","f","f","s",".">> }

\* whitespace between the words of an answer
WordGaps == {<<" ">>, <<"\n"," ","\t">>}

\* an answer of w words: first, then w - 1 times the word "it"
RECURSIVE AnswerOfWords(_, _, _)
AnswerOfWords(w, first, gap) ==
  IF w <= 1 THEN first
  ELSE AnswerOfWords(w - 1, first, gap) \o gap \o <<"i","t">>

\* model outputs from which no number in [0, 10] can be taken
UnusableTexts == {<<"a","b","c">>, <<"1","0","0">>}

\* score_answer_with_llm called on its own for an answer of w words, with a
\* model that answers without a usable number at both attempts
TryHeuristic(w, first, gap, text) ==
  /\ trial.fn = "none"
  /\ trial' = [fn |-> "heuristic", words |-> w, first |-> first, gap |-> gap,
               answer |-> AnswerOfWords(w, first, gap),
               out |-> ScoreAnswerWithLlm(LoadedLlm,
                         <<[raises |-> FALSE, text |-> text],
                           [raises |-> FALSE, text |-> <<>>]>>,
                         AnswerOfWords(w, first, gap), TRUE)]
  /\ UNCHANGED <<session, candidates, answers, nextId, assigned, resp, pending>>

NextScorer ==
  \/ \E t \in ScorerTranscripts, env \in ScorerEnvs(ScorerFirst, ScorerSecond) :
        TryHandle(t, env)
  \/ \E heard \in Heard(ClipSegments), env \in ScorerEnvs(ScorerFirst, ScorerSecond) :
        TryClip(heard, env)
  \/ \E kind \in LlmKinds, outs \in ScorerFirst \X ScorerSecond,
        answer \in ScorerTranscripts, tieUp \in BOOLEAN :
        TryScore(kind, outs, answer, tieUp)
  \/ \E w \in 1..MaxWords, first \in FirstWords, gap \in WordGaps,
        text \in UnusableTexts :
        TryHeuristic(w, first, gap, text)

SpecScorer == Init /\ [][NextScorer]_vars

(* ------------- candidate_answer_audio taken step by step -------------- *)

\* Submissions that may be taken step by step in one behaviour.
MaxRequests == 2

\* the stages after which a submission is over
Over == {"answered", "lost"}

\* no submission is between its first and its last step
NoneInFlight == \A i \in 1..Len(pending) : pending[i].stage \in Over

\* a variant of AdvancedCookie that increments the cursor the session holds
\* when the response is made
AdvancedCookieFresh(r) ==
  [session[r.sess] EXCEPT !.q_index = session[r.sess].q_index + 1]

\* session["q_index"] = q_index + 1: the session the response carries back
\* is the one the request brought (Flask keeps the session in the browser's
\* cookie), with the cursor the request read, plus one
AdvancedCookie(r) == [r.cookie EXCEPT !.q_index = r.cookie.q_index + 1]

\* candidate_answer_audio from its start to the scoring: the request brings
\* the session cookie, its audio converts, the cursor it reads is below the
\* end, the clip is transcribed and scored
BeginSubmit(s, clip) ==
  /\ Len(pending) < MaxRequests
  /\ session[s].candidate_id # NoCid
  /\ ~Done(session[s].q_index, session[s].questions)
  /\ pending' = Append(pending, [sess |-> s, cookie |-> session[s],
                                 clip |-> clip, stage |-> "scored"])
  /\ UNCHANGED <<session, candidates, answers, nextId, assigned, resp, trial>>

\* "Save in DB": save_answer for the question at the cursor the request read
PersistAnswer(i) ==
  /\ i <= Len(pending)
  /\ pending[i].stage = "scored"
  /\ Len(answers) < MaxAnswers
  /\ answers' = SaveAnswer(answers, pending[i].cookie.candidate_id,
                  pending[i].cookie.questions[pending[i].cookie.q_index + 1],
                  pending[i].clip.transcript, pending[i].clip.score,
                  pending[i].clip.explanation)
  /\ pending' = [pending EXCEPT ![i].stage = "saved"]
  /\ UNCHANGED <<session, candidates, nextId, assigned, resp, trial>>

\* from "Increment question index AFTER saving the answer" to the response
CompleteSubmit(i) ==
  LET r == pending[i]
      cookie == AdvancedCookie(r)
      done == Done(cookie.q_index, cookie.questions)
  IN  /\ i <= Len(pending)
      /\ r.stage = "saved"
      /\ session' = [session EXCEPT ![r.sess] = cookie]
      /\ candidates' = IF done
                       THEN Finalize(candidates, answers, cookie.candidate_id)
                       ELSE candidates
      /\ resp' = [NoResp EXCEPT !.op = "answer", !.status = 200,
                    !.done = done, !.transcript = r.clip.transcript,
                    !.score = r.clip.score,
                    !.explanation = IF r.clip.explanation = None THEN ""
                                    ELSE r.clip.explanation,
                    !.scored = TRUE]
      /\ pending' = [pending EXCEPT ![i].stage = "answered"]
      /\ UNCHANGED <<answers, nextId, assigned, trial>>

\* the process dies, or the response never reaches the browser, after
\* save_answer has committed: the cursor in the cookie is not advanced
LoseRequest(i) ==
  /\ i <= Len(pending)
  /\ pending[i].stage = "saved"
  /\ pending' = [pending EXCEPT ![i].stage = "lost"]
  /\ UNCHANGED <<session, candidates, answers, nextId, assigned, resp, trial>>

\* a submission that starts when no other is in flight
BeginSubmitAlone(s, clip) == NoneInFlight /\ BeginSubmit(s, clip)

\* one submission at a time, and it may be lost; the uploads succeed
NextCrash ==
  \/ \E s \in Sessions :
       \/ \E gen \in GenOutcomes : Upload(s, "ok", gen)
       \/ \E clip \in AppClips : BeginSubmitAlone(s, clip)
  \/ \E i \in 1..MaxRequests : PersistAnswer(i)
  \/ \E i \in 1..MaxRequests : CompleteSubmit(i)
  \/ \E i \in 1..MaxRequests : LoseRequest(i)

SpecCrash == Init /\ [][NextCrash]_vars

\* submissions of one browser in flight together, none lost; the uploads
\* succeed
NextConcurrent ==
  \/ \E s \in Sessions :
       \/ \E gen \in GenOutcomes : Upload(s, "ok", gen)
       \/ \E clip \in AppClips : BeginSubmit(s, clip)
  \/ \E i \in 1..MaxRequests : PersistAnswer(i)
  \/ \E i \in 1..MaxRequests : CompleteSubmit(i)

SpecConcurrent == Init /\ [][NextConcurrent]_vars

(* ------------------------------ properties ----------------------------- *)

\* the rows of answers that belong to cid
RecordsOf(cid) == GetCandidateAnswers(answers, cid)

\* cid is a candidate of the store: it has a row in candidates, or rows in
\* answers
Stored(cid) == cid \in DOMAIN candidates \/ RecordsOf(cid) # <<>>

\* C1: for every candidate, in every reachable state, the number of persisted
\* answer records of the candidate equals the cursor (q_index) of the
\* candidate's session: never ahead, never behind.
C1_RecordsEqualCursor ==
  \A s \in Sessions :
    Stored(session[s].candidate_id)
      => Len(RecordsOf(session[s].candidate_id)) = session[s].q_index

\* C2: when the cursor of a candidate equals the length of its question set,
\* a submitted clip is a no-op: no record is persisted, the cursor, the
\* finished flag and the aggregate stay as they are, nothing is scored, and
\* the response says the interview is already complete.
C2_SubmitAtEndIsNoOp ==
  [][\A s \in Sessions : \A audio \in {"bad", "ok"} :
       \A clip \in AppClips \cup {NoClip} :
         ( /\ session[s].candidate_id \in DOMAIN candidates
           /\ session[s].q_index = Len(session[s].questions)
           /\ Submit(s, audio, clip) )
         => /\ answers' = answers
            /\ session' = session
            /\ candidates' = candidates
            /\ ~resp'.scored
            /\ resp'.message = "Interview already complete!"]_vars

\* C3: a submission whose audio conversion fails answers 500, writes no record
\* and leaves the cursor; a resubmission with convertible audio after it
\* persists one record for the same question and advances the cursor by one,
\* as a first submission at that cursor does.
C3_ConversionFailureIsRetryable ==
  [][\A s \in Sessions :
       LET cid == session[s].candidate_id
           q_index == session[s].q_index
           questions == session[s].questions
       IN  cid # NoCid =>
             /\ Submit(s, "bad", NoClip)
                  => /\ resp'.status = 500
                     /\ answers' = answers
                     /\ session' = session
                     /\ candidates' = candidates
             /\ \A clip \in AppClips :
                  ( /\ resp.op = "answer" /\ resp.status = 500
                    /\ q_index < Len(questions)
                    /\ Submit(s, "ok", clip) )
                  => /\ Len(answers') = Len(answers) + 1
                     /\ SubSeq(answers', 1, Len(answers)) = answers
                     /\ answers'[Len(answers')].candidate_id = cid
                     /\ answers'[Len(answers')].question = questions[q_index + 1]
                     /\ session'[s].q_index = q_index + 1
                     /\ session'[s].questions = questions
                     /\ resp'.status = 200 /\ resp'.scored]_vars

\* a conversion failure has just answered a candidate in mid-interview, who
\* has a record already and a question left to resubmit for
C3_Witness ==
  /\ resp.op = "answer" /\ resp.status = 500
  /\ \E s \in Sessions :
       /\ session[s].candidate_id \in DOMAIN candidates
       /\ session[s].q_index >= 1
       /\ session[s].q_index < Len(session[s].questions)
       /\ Len(RecordsOf(session[s].candidate_id)) = session[s].q_index

\* C4: every submission with convertible audio for an unfinished candidate
\* persists exactly one record and advances the cursor by exactly one,
\* whatever transcription, the scoring model and retrieval do; so the
\* submission that uses up the question set leaves the candidate Finished.
C4_ConvertibleSubmitProgresses ==
  [][\A s \in Sessions : \A clip \in AppClips :
       LET cid == session[s].candidate_id
           q_index == session[s].q_index
           questions == session[s].questions
       IN  ( /\ cid # NoCid
             /\ q_index < Len(questions)
             /\ Submit(s, "ok", clip) )
           => /\ Len(answers') = Len(answers) + 1
              /\ Len(GetCandidateAnswers(answers', cid)) = Len(RecordsOf(cid)) + 1
              /\ session'[s].q_index = q_index + 1
              /\ q_index + 1 = Len(questions)
                   => /\ cid \in DOMAIN candidates'
                      /\ candidates'[cid].finished]_vars

\* C5: a candidate whose finished flag is set has as many persisted answer
\* records as the question set assigned to it has questions.
C5_FinishedHasAllRecords ==
  \A c \in DOMAIN candidates :
    candidates[c].finished => Len(RecordsOf(c)) = Len(assigned[c])

\* a candidate with the three fallback questions is finished, and
\* next_question has run the finalization once more
C5_Witness ==
  /\ resp.op = "next_question" /\ resp.done
  /\ \E c \in DOMAIN candidates :
       candidates[c].finished /\ assigned[c] = FallbackQuestions

\* C6: the stored aggregate of a finished candidate is the arithmetic mean of
\* all its persisted answer scores, and running the finalization again leaves
\* the finished flag and the aggregate as they are.
C6_AggregateIsMean ==
  \A c \in DOMAIN candidates :
    candidates[c].finished =>
      LET avg == candidates[c].avg_score
      IN  /\ RecordsOf(c) # <<>>
          /\ avg[2] > 0
          /\ avg[1] * Len(RecordsOf(c)) = SumScores(RecordsOf(c)) * avg[2]
          /\ Finalize(candidates, answers, c) = candidates
          /\ Finalize(Finalize(candidates, answers, c), answers, c)
               = Finalize(candidates, answers, c)

\* a finished candidate whose records carry different scores, so that the
\* mean is none of them
C6_Witness ==
  \E c \in DOMAIN candidates :
    /\ candidates[c].finished
    /\ \E i, j \in 1..Len(RecordsOf(c)) :
         RecordsOf(c)[i].score # RecordsOf(c)[j].score
    /\ candidates[c].avg_score[1] > 0

\* t has whitespace only (or nothing)
IsBlank(t) == \A i \in 1..Len(t) : t[i] \in Whitespace

NoAnswerDetected ==
  "No answer detected. Try speaking a bit louder or closer to the mic."

\* C7: for a transcript that is empty or whitespace only, the scorer returns
\* 0.0 with the fixed "No answer detected" explanation and calls neither the
\* scoring model nor the retrieval index.
C7_BlankTranscriptCallsNothing ==
  (trial.fn = "handle" /\ IsBlank(trial.transcript))
    => /\ ~trial.out.raised
       /\ trial.out.score = 0
       /\ trial.out.explanation = NoAnswerDetected
       /\ trial.out.scoreCalls = 0
       /\ trial.out.llmCalls = 0
       /\ trial.out.ragCalls = 0

\* the scorer has answered a transcript of whitespace, with a scoring model
\* and an index that would have answered
C7_Witness ==
  /\ trial.fn = "handle"
  /\ Len(trial.transcript) > 0 /\ IsBlank(trial.transcript)
  /\ ~trial.env.llm[1].raises /\ trial.env.rag = "ok"
  /\ trial.out.explanation = NoAnswerDetected

\* "idk" in any letter case
IdkForms == {<<x, y, z>> : x \in {"i", "I"}, y \in {"d", "D"}, z \in {"k", "K"}}

\* t is "idk" in some letter case, with or without whitespace around it
IsIdk(t) ==
  \E a \in 0..Len(t) :
    /\ a + 3 <= Len(t)
    /\ SubSeq(t, a + 1, a + 3) \in IdkForms
    /\ \A i \in (1..a) \cup ((a + 4)..Len(t)) : t[i] \in Whitespace

\* C8: the transcript "idk", in any letter case and with or without
\* whitespace around it, takes the explain-trigger path: score 0.0, the
\* retrieval index is asked for an explanation, and score_answer_with_llm is
\* not entered.
C8_IdkTakesExplainPath ==
  (trial.fn = "handle" /\ IsIdk(trial.transcript))
    => /\ trial.out.path = "explain"
       /\ trial.out.score = 0
       /\ trial.out.ragCalls = 1
       /\ trial.out.scoreCalls = 0

\* the scorer has answered an "idk" with capitals and whitespace around it
C8_Witness ==
  /\ trial.fn = "handle"
  /\ IsIdk(trial.transcript)
  /\ \E i \in 1..Len(trial.transcript) :
       LowerChar(trial.transcript[i]) # trial.transcript[i]
  /\ trial.transcript[1] \in Whitespace
  /\ trial.out.path = "explain"

\* no attempt of score_answer_with_llm gets a number in [0, 10] out of the
\* model's text
NothingExtractable(kind, outs) ==
  \A k \in 1..(Retries + 1) : ExtractScore(CallLlm(kind, outs[k]).text).none

\* C9: whatever the scoring model puts out, the score score_answer_with_llm
\* returns lies in [0.0, 10.0] and has at most 2 decimal places; when no valid
\* number can be extracted the fallback heuristic supplies it.
C9_ScoreInRangeTwoDecimals ==
  (trial.fn = "score" /\ ~trial.out.raised)
    => /\ 0 <= trial.out.score /\ trial.out.score <= 10 * Scale
       /\ trial.out.score % (Scale \div 100) = 0
       /\ NothingExtractable(trial.kind, trial.llm)
            => /\ trial.out.by = "heuristic"
               /\ trial.out.score = Heuristic(trial.answer)
       /\ ~NothingExtractable(trial.kind, trial.llm) => trial.out.by = "llm"

\* the model said "100" and then "abc" about a real answer, and the
\* heuristic scored it
C9_Witness ==
  /\ trial.fn = "score"
  /\ trial.llm[1] = [raises |-> FALSE, text |-> <<"1","0","0">>]
  /\ trial.llm[2] = [raises |-> FALSE, text |-> <<"a","b","c">>]
  /\ ~IsBlank(trial.answer)
  /\ trial.out.by = "heuristic"
  /\ trial.out.score >= 4 * Scale

FailureTexts ==
  { "Scoring failed: <e>", "Explanation failed: <e>",
    "Could not generate detailed explanation: <e>" }

\* C10, as the claim has it: an exception raised while the scorer invokes the
\* scoring model or the retrieval index is caught, never reaches the caller,
\* and the result is then score 0.0 with an explanation of the failure.
C10_FailureScoresZero ==
  trial.fn = "handle"
    => /\ ~trial.out.raised
       /\ trial.out.caught # "none"
            => /\ trial.out.score = 0
               /\ trial.out.explanation \in FailureTexts

\* C10, as the code has it: such an exception is caught and never reaches the
\* caller; a failure of the scoring model or of the retrieval for an explain
\* trigger gives 0.0 with an explanation of the failure; a failure of the
\* retrieval for the low-score feedback keeps the score already computed
\* (below 4.0) and gives an explanation of the failure.
C10_FailureIsCaught ==
  trial.fn = "handle"
    => /\ ~trial.out.raised
       /\ trial.out.caught = "scoring"
            => /\ trial.out.score = 0
               /\ trial.out.explanation = "Scoring failed: <e>"
       /\ trial.out.caught = "explain"
            => /\ trial.out.score = 0
               /\ trial.out.explanation = "Explanation failed: <e>"
       /\ trial.out.caught = "coach"
            => /\ 0 <= trial.out.score /\ trial.out.score < LowScore * Scale
               /\ trial.out.explanation
                    = "Could not generate detailed explanation: <e>"

\* the model scored an answer 3 and the retrieval for the feedback failed:
\* the 3.0 is returned
C10_Witness ==
  /\ trial.fn = "handle"
  /\ trial.out.caught = "coach"
  /\ trial.out.score = 3 * Scale

\* C11: next_question only reads the session: it leaves the cursor, the
\* question set and the answer records as they are; while the cursor is below
\* the length of the question set it returns done = false with the question
\* at the cursor, and from there on it returns done = true and runs the
\* finalization.
C11_NextQuestionIsPureRead ==
  [][\A s \in Sessions :
       LET cid == session[s].candidate_id
           q_index == session[s].q_index
           questions == session[s].questions
       IN  (cid # NoCid /\ NextQuestion(s))
           => /\ session' = session
              /\ answers' = answers
              /\ q_index < Len(questions)
                   => /\ ~resp'.done
                      /\ resp'.message = questions[q_index + 1]
                      /\ candidates' = candidates
              /\ q_index >= Len(questions)
                   => /\ resp'.done
                      /\ resp'.message = "Interview complete!"
                      /\ candidates' = Finalize(candidates, answers, cid)]_vars

\* next_question has handed out the second question of a set to a candidate
\* with one record
C11_Witness ==
  /\ resp.op = "next_question" /\ ~resp.done
  /\ \E s \in Sessions :
       /\ session[s].candidate_id \in DOMAIN candidates
       /\ session[s].q_index = 1
       /\ Len(session[s].questions) > 1
       /\ resp.message = session[s].questions[2]
       /\ Len(RecordsOf(session[s].candidate_id)) = 1

\* the finished flag of cid is set in the table cands
IsFinished(cands, cid) == cid \in DOMAIN cands /\ cands[cid].finished

\* C12: for each candidate the cursor stays within 0..len(questions), never
\* decreases, changes only by +1 and only in a submission that persisted an
\* answer record; and whenever an operation completes with the cursor at
\* len(questions), the finished flag of that candidate is set.
C12_CursorBoundedMonotoneFinished ==
  [][\A s \in Sessions :
       LET cid == session[s].candidate_id
           q_index == session[s].q_index
       IN  /\ (cid # NoCid /\ session'[s].candidate_id = cid)
                => \/ session'[s].q_index = q_index
                   \/ /\ session'[s].q_index = q_index + 1
                      /\ resp'.op = "answer" /\ resp'.scored
                      /\ Len(answers') = Len(answers) + 1
                      /\ answers'[Len(answers')].candidate_id = cid
           /\ (Stored(session[s].candidate_id))'
                => /\ 0 <= session'[s].q_index
                   /\ session'[s].q_index <= Len(session'[s].questions)
                   /\ session'[s].q_index = Len(session'[s].questions)
                        => IsFinished(candidates', session'[s].candidate_id)]_vars

\* the records recs carry the questions of qs in order, from the first on
InOrder(recs, qs) ==
  /\ Len(recs) <= Len(qs)
  /\ \A k \in 1..Len(recs) : recs[k].question = qs[k]

\* for the candidates that were created: the k-th persisted record of a
\* candidate carries the k-th question of the set assigned to it
CreatedInOrder ==
  \A c \in DOMAIN assigned : InOrder(RecordsOf(c), assigned[c])

\* C13: the answer records of a candidate are persisted in cursor order: its
\* k-th record, in insertion order, carries the k-th question of its question
\* set; no question is skipped, repeated or reordered, also when submissions
\* are retried after conversion errors.
C13_RecordsInQuestionOrder ==
  /\ CreatedInOrder
  /\ \A s \in Sessions :
       Stored(session[s].candidate_id)
         => InOrder(RecordsOf(session[s].candidate_id), session[s].questions)

\* C14: for a candidate with a one-question set, a submission whose audio
\* converts and whose transcription is empty or fails is answered with
\* done = true, score 0.0 and the empty transcript with its fixed explanation;
\* one record with score 0.0 is persisted, the candidate is Finished and its
\* aggregate is 0.0.
C14_SilentOnlyAnswerFinishesAtZero ==
  [][\A s \in Sessions : \A clip \in AppClips :
       LET cid == session[s].candidate_id
           questions == session[s].questions
       IN  ( /\ cid \in DOMAIN candidates
             /\ questions = assigned[cid]
             /\ Len(questions) = 1
             /\ session[s].q_index = 0
             /\ clip.transcript = <<>>
             /\ Submit(s, "ok", clip) )
           => /\ resp'.status = 200 /\ resp'.done
              /\ resp'.score = 0
              /\ resp'.transcript = <<>>
              /\ resp'.explanation = NoAnswerDetected
              /\ answers' = Append(answers,
                   [candidate_id |-> cid, question |-> questions[1],
                    answer |-> <<>>, score |-> 0,
                    explanation |-> NoAnswerDetected])
              /\ candidates'[cid].finished
              /\ candidates'[cid].avg_score = <<0, 1>>]_vars

\* a candidate with one question has been answered for a silent clip and is
\* finished with aggregate 0.0
C14_Witness ==
  /\ resp.op = "answer" /\ resp.scored /\ resp.done
  /\ resp.transcript = <<>> /\ resp.explanation = NoAnswerDetected
  /\ \E s \in Sessions :
       LET cid == session[s].candidate_id
       IN  /\ IsFinished(candidates, cid)
           /\ Len(assigned[cid]) = 1
           /\ Len(RecordsOf(cid)) = 1
           /\ RecordsOf(cid)[1].score = 0
           /\ candidates[cid].avg_score = <<0, 1>>

\* the scoring model answers, and no number in [0, 10] can be taken from it
Unusable(o) == ~o.raises /\ ExtractScore(o.text).none

\* every attempt of the scoring model is unusable
NoUsableNumber(llm) == \A k \in 1..(Retries + 1) : Unusable(llm[k])

\* the invocation of the scoring model raises before a usable number came
InvocationFails(llm) ==
  \E k \in 1..(Retries + 1) :
    llm[k].raises /\ \A j \in 1..(k - 1) : Unusable(llm[j])

\* the clip of the spoken answer was heard
HeardSpokenAnswer ==
  /\ trial.fn = "clip"
  /\ trial.heard = [raises |-> FALSE, segments |-> <<(<<" ">> \o SpokenAnswer)>>]

\* C15, as the claim has it: when the scoring model is unavailable (its
\* invocation fails, or it yields no usable number) the spoken answer gets
\* the heuristic score 6.70, returned by the scorer and persisted.
C15_UnavailableModelGives670 ==
  (HeardSpokenAnswer
     /\ (InvocationFails(trial.env.llm) \/ NoUsableNumber(trial.env.llm)))
    => /\ trial.out.score = 670 * (Scale \div 100)
       /\ trial.rows[1].score = 670 * (Scale \div 100)

\* C15, as the code has it: the spoken answer has 12 words; when the scoring
\* model yields no usable number in any attempt the scorer returns the
\* heuristic round(4.0 + (12/80)*4.0 + 2.0, 2) = 6.60 and that is persisted;
\* when the invocation of the scoring model raises, the scorer returns 0.0
\* with "Scoring failed" and that is persisted.
C15_UnavailableModelGives660 ==
  HeardSpokenAnswer
    => /\ trial.out.transcript = SpokenAnswer
       /\ Len(split(SpokenAnswer)) = 12
       /\ trial.rows[1].answer = SpokenAnswer
       /\ trial.rows[1].score = trial.out.score
       /\ trial.rows[1].explanation = trial.out.explanation
       /\ NoUsableNumber(trial.env.llm)
            => /\ trial.out.score = 660 * (Scale \div 100)
               /\ trial.out.explanation = None
       /\ InvocationFails(trial.env.llm)
            => /\ trial.out.score = 0
               /\ trial.out.explanation = "Scoring failed: <e>"

\* the model said "abc" twice about the spoken answer and 6.60 was saved
C15_Witness ==
  /\ HeardSpokenAnswer
  /\ trial.env.llm[1] = [raises |-> FALSE, text |-> <<"a","b","c">>]
  /\ trial.env.llm[2] = [raises |-> FALSE, text |-> <<"a","b","c">>]
  /\ trial.rows[1].score = 660 * (Scale \div 100)

\* C16: a submission or a next_question request from a session without a
\* candidate id gets the session-expired result (for a submission with a
\* status other than the 400 of a request without audio), changes no state
\* (no candidate row, no answer record, no cursor, no finished flag) and
\* creates no candidate.
C16_NoCandidateIdIsSessionExpired ==
  [][\A s \in Sessions :
       session[s].candidate_id = NoCid =>
         /\ NextQuestion(s)
              => /\ resp'.done /\ resp'.message = "Session expired."
                 /\ UNCHANGED <<session, candidates, answers, nextId, assigned>>
         /\ \A audio \in {"none", "bad", "ok"} :
              \A clip \in AppClips \cup {NoClip} :
                Submit(s, audio, clip)
                  => /\ resp'.status = 440
                     /\ resp'.message = "Session expired."
                     /\ ~resp'.scored
                     /\ UNCHANGED <<session, candidates, answers, nextId,
                                    assigned>>]_vars

\* a submission from a session that lost its candidate id was answered 440
\* while the store holds a candidate with a record
C16_Witness ==
  /\ resp.op = "answer" /\ resp.status = 440
  /\ \A s \in Sessions : session[s].candidate_id = NoCid
  /\ \E c \in DOMAIN candidates : ~candidates[c].finished /\ Len(RecordsOf(c)) = 1

\* C17: in every reachable state get_leaderboard returns exactly the
\* candidates whose finished flag is set, no candidate in progress, ordered
\* by aggregate score in non-increasing order.
C17_LeaderboardFinishedDescending ==
  /\ GetLeaderboard(candidates) # {}
  /\ \A lb \in GetLeaderboard(candidates) :
       /\ {lb[i].candidate_id : i \in 1..Len(lb)}
            = {c \in DOMAIN candidates : candidates[c].finished}
       /\ \A i, j \in 1..Len(lb) :
            /\ i # j => lb[i].candidate_id # lb[j].candidate_id
            /\ i < j => FracGeq(lb[i].avg_score, lb[j].avg_score)
       /\ \A i \in 1..Len(lb) :
            lb[i].avg_score = candidates[lb[i].candidate_id].avg_score

\* two candidates are finished and the later one has the higher aggregate,
\* so that the leaderboard lists it first
C17_Witness ==
  /\ 1 \in DOMAIN candidates /\ 2 \in DOMAIN candidates
  /\ candidates[1].finished /\ candidates[2].finished
  /\ ~FracGeq(candidates[1].avg_score, candidates[2].avg_score)
  /\ \A lb \in GetLeaderboard(candidates) :
       Len(lb) = 2 /\ lb[1].candidate_id = 2

\* C18: the Finished condition is checked before the audio is converted: for
\* a candidate whose cursor equals the length of its question set, every
\* submission that carries a clip, also one whose conversion fails, gets the
\* already-complete result and never a conversion error.
C18_CompletionCheckedBeforeConversion ==
  [][\A s \in Sessions : \A audio \in {"bad", "ok"} :
       \A clip \in AppClips \cup {NoClip} :
         ( /\ IsFinished(candidates, session[s].candidate_id)
           /\ session[s].q_index = Len(session[s].questions)
           /\ Submit(s, audio, clip) )
         => /\ resp'.status # 500
            /\ resp'.message # "Audio conversion failed"
            /\ resp'.done
            /\ resp'.message = "Interview already complete!"]_vars

\* C19: the cursor is derived from the persisted records, so that a crash or
\* failure between "answer persisted" and "cursor advanced" cannot leave a
\* state in which the number of answer records of a candidate differs from
\* its cursor.
C19_CrashLeavesRecordsEqualCursor ==
  NoneInFlight =>
    \A s \in Sessions :
      session[s].candidate_id \in DOMAIN candidates
        => Len(RecordsOf(session[s].candidate_id)) = session[s].q_index

\* the same candidate and the same cursor were read by the submissions i, j
SameCursorRead(i, j) ==
  /\ pending[i].stage = "answered" /\ pending[j].stage = "answered"
  /\ pending[i].cookie.candidate_id = pending[j].cookie.candidate_id
  /\ pending[i].cookie.q_index = pending[j].cookie.q_index

\* C20: two submissions in flight for one candidate may both read the same
\* cursor; then both persist a record for the same question and the cursor
\* advances by one only, so that the candidate has more records than its
\* cursor says.
C20_SameCursorReadDuplicates ==
  \A i, j \in 1..Len(pending) :
    (i < j /\ SameCursorRead(i, j)) =>
      LET cid == pending[i].cookie.candidate_id
          question == pending[i].cookie.questions[pending[i].cookie.q_index + 1]
      IN  /\ Cardinality({n \in 1..Len(answers) :
                            /\ answers[n].candidate_id = cid
                            /\ answers[n].question = question}) >= 2
          /\ \A s \in Sessions :
               session[s].candidate_id = cid
                 => Len(RecordsOf(cid)) > session[s].q_index

\* two submissions of one candidate read cursor 0, both were answered: two
\* records for the first question, cursor 1
C20_Witness ==
  /\ Len(pending) >= 2
  /\ SameCursorRead(1, 2)
  /\ pending[1].cookie.q_index = 0
  /\ \E s \in Sessions :
       /\ session[s].candidate_id = pending[1].cookie.candidate_id
       /\ session[s].q_index = 1
       /\ Len(RecordsOf(session[s].candidate_id)) = 2
       /\ RecordsOf(session[s].candidate_id)[1].question
            = RecordsOf(session[s].candidate_id)[2].question

\* the candidate cid as the browsers and the store hold it: the sessions that
\* carry its id (cursor and question set), its records, its row
HeldAs(sess, cands, rows, cid) ==
  [sessions |-> {sess[s] : s \in {t \in Sessions : sess[t].candidate_id = cid}},
   records |-> GetCandidateAnswers(rows, cid),
   row |-> IF cid \in DOMAIN cands THEN <<cands[cid]>> ELSE <<>>]

\* C21: operations on different candidates are independent: under any
\* interleaving, a step of a submission made for candidate A leaves the
\* cursor, the question set, the answer records, the finished flag and the
\* aggregate of every other candidate B as they are.
C21_StepLeavesOtherCandidates ==
  [][\A i \in 1..MaxRequests :
       (i <= Len(pending) /\ (PersistAnswer(i) \/ CompleteSubmit(i)))
         => \A b \in DOMAIN candidates :
              b # pending[i].cookie.candidate_id
                => HeldAs(session', candidates', answers', b)
                     = HeldAs(session, candidates, answers, b)]_vars

\* C22: the aggregate is recomputed on every answer: after each submission
\* that persists a record for a created candidate, and not only after the
\* last one, the stored aggregate of the candidate is the mean of the scores
\* of all its records persisted so far.
C22_AggregateFollowsEveryAnswer ==
  [][\A s \in Sessions : \A clip \in AppClips :
       LET cid == session[s].candidate_id
       IN  ( /\ cid \in DOMAIN candidates
             /\ session[s].q_index < Len(session[s].questions)
             /\ Submit(s, "ok", clip) )
           => /\ Len(GetCandidateAnswers(answers', cid)) = Len(RecordsOf(cid)) + 1
              /\ candidates'[cid].avg_score = AvgScore(answers', cid)]_vars

Coaching == "<coaching for the answer>"

\* C23, as the claim has it: for a non-empty transcript, a resulting score
\* below 4.0 comes with one query to the retrieval index (the coaching query
\* on the normal path, whose text is the explanation); a score of 4.0 or more
\* comes with no query and no explanation; and no call of the scorer makes
\* more than one query.
C23_LowScoreIsCoached ==
  (trial.fn = "handle" /\ ~IsBlank(trial.transcript))
    => /\ trial.out.ragCalls <= 1
       /\ trial.out.score < LowScore * Scale
            => /\ trial.out.ragCalls = 1
               /\ trial.out.path = "normal" => trial.out.explanation = Coaching
       /\ trial.out.score >= LowScore * Scale
            => /\ trial.out.ragCalls = 0
               /\ trial.out.explanation = None

\* C23, as the code has it: on the normal path a score below 4.0 returned by
\* the scoring call comes with exactly one coaching query, whose text is the
\* explanation, or a "Could not generate detailed explanation" text when the
\* query fails; a score of 4.0 or more comes with no query and no
\* explanation; when the invocation of the scoring model raises, the result
\* is 0.0 with "Scoring failed" and no query is made; the explain-trigger
\* path makes its own query and no other; no call makes more than one query.
C23_LowScoreIsCoachedUnlessFailed ==
  (trial.fn = "handle" /\ ~IsBlank(trial.transcript))
    => /\ trial.out.ragCalls <= 1
       /\ trial.out.path \in {"explain", "normal"}
       /\ trial.out.path = "explain"
            => trial.out.ragCalls = 1 /\ trial.out.score = 0
       /\ (trial.out.path = "normal" /\ InvocationFails(trial.env.llm))
            => /\ trial.out.score = 0
               /\ trial.out.ragCalls = 0
               /\ trial.out.explanation = "Scoring failed: <e>"
       /\ (trial.out.path = "normal" /\ ~InvocationFails(trial.env.llm))
            => /\ trial.out.score < LowScore * Scale
                    => /\ trial.out.ragCalls = 1
                       /\ trial.out.explanation
                            = IF trial.env.rag = "raise"
                              THEN "Could not generate detailed explanation: <e>"
                              ELSE Coaching
               /\ trial.out.score >= LowScore * Scale
                    => /\ trial.out.ragCalls = 0
                       /\ trial.out.explanation = None

\* the model scored an answer 3.99 and the coaching text came back with it
C23_Witness ==
  /\ trial.fn = "handle"
  /\ trial.out.path = "normal"
  /\ trial.env.llm[1] = [raises |-> FALSE, text |-> <<"3",".","9","9">>]
  /\ trial.out.score = 399 * (Scale \div 100)
  /\ trial.out.ragCalls = 1
  /\ trial.out.explanation = Coaching

\* C24: when the fallback heuristic engages for a non-empty answer of w
\* whitespace-delimited words, the score is min(10, 4.0 + 4.0*min(w/80, 1) + b)
\* rounded to 2 decimals, with b = 2.0 if the lower-cased answer contains a
\* depth keyword and 0.0 otherwise; so the score lies in [4.0, 10.0] and is
\* not below the score of the answer with one word fewer.
C24_HeuristicFormula ==
  trial.fn = "heuristic" =>
    LET w == trial.words
        b == IF trial.first = <<"W","e">> THEN 0 ELSE 2 * Scale
        capped == IF w <= 80 THEN w ELSE 80
        \* 4.0 + 4.0 * min(w/80, 1) + b, in units of 1/(80 * Scale)
        sum80 == 80 * 4 * Scale + 4 * Scale * capped + 80 * b
        exact80 == IF sum80 <= 80 * 10 * Scale THEN sum80 ELSE 80 * 10 * Scale
        cent == Scale \div 100
        diff80 == 80 * trial.out.score - exact80
        shorter == ScoreAnswerWithLlm(LoadedLlm,
                     <<[raises |-> FALSE, text |-> <<>>],
                       [raises |-> FALSE, text |-> <<>>]>>,
                     AnswerOfWords(w - 1, trial.first, trial.gap), TRUE)
    IN  /\ ~trial.out.raised
        /\ trial.out.by = "heuristic"
        /\ trial.out.calls = Retries + 1
        /\ trial.out.score % cent = 0
        /\ 2 * diff80 <= 80 * cent /\ 2 * diff80 >= -(80 * cent)
        /\ 4 * Scale <= trial.out.score /\ trial.out.score <= 10 * Scale
        /\ w > 1 => shorter.score <= trial.out.score

\* an answer of more than 80 words without a depth keyword, words parted by
\* several whitespace characters, was scored 8.0 by the heuristic
C24_Witness ==
  /\ trial.fn = "heuristic"
  /\ trial.words > HeuristicWords
  /\ trial.first = <<"W","e">>
  /\ Len(trial.gap) > 1
  /\ trial.out.score = 8 * Scale

\* C25: the lifecycle only moves forward: once the finished flag of a
\* candidate is set, no next_question, submission, finalization or further
\* upload clears it, removes the candidate or adds an answer record for it.
C25_FinishedIsTerminal ==
  [][\A c \in DOMAIN candidates :
       candidates[c].finished
         => /\ IsFinished(candidates', c)
            /\ GetCandidateAnswers(answers', c) = RecordsOf(c)]_vars

\* a candidate is finished, its browser has been told so again by a further
\* submission, and the finished candidate of an earlier upload is still there
C25_Witness ==
  /\ resp.op = "answer" /\ resp.message = "Interview already complete!"
  /\ \E s \in Sessions :
       /\ IsFinished(candidates, session[s].candidate_id)
       /\ \E c \in DOMAIN candidates :
            /\ c # session[s].candidate_id
            /\ candidates[c].finished
            /\ RecordsOf(c) # <<>>

\* the list a is a prefix of the list b
IsPrefix(a, b) == Len(a) <= Len(b) /\ SubSeq(b, 1, Len(a)) = a

\* C26: answer records are append-only: every step leaves each persisted
\* record (candidate id, question, transcript, score, explanation) present
\* and unmodified, and the record list of each candidate before the step is a
\* prefix of its record list after it.
C26_RecordsAppendOnly ==
  [][/\ IsPrefix(answers, answers')
     /\ \A n \in 1..Len(answers) :
          IsPrefix(RecordsOf(answers[n].candidate_id),
                   GetCandidateAnswers(answers', answers[n].candidate_id))]_vars

\* the table holds records of two candidates, and the first candidate's
\* record is followed by records the second one added later
C26_Witness ==
  /\ Len(answers) = 3
  /\ answers[1].candidate_id # answers[2].candidate_id
  /\ answers[2].candidate_id = answers[3].candidate_id
  /\ answers[2].question # answers[3].question

\* C27: a non-empty transcript takes the explain-trigger path exactly when
\* its lower-cased, trimmed form is one of the fixed meta-phrases, or it has
\* at most 6 whitespace-delimited tokens one of which is the token "explain";
\* every other non-empty transcript takes the normal scoring path.
C27_ExplainTriggerIsTokenBased ==
  (trial.fn = "handle" /\ ~IsBlank(trial.transcript))
    => LET t_norm == strip(lower(trial.transcript))
           tokens == split(t_norm)
           asked  == \/ t_norm \in EXPLAIN_TRIGGERS
                     \/ /\ Len(tokens) <= 6
                        /\ \E i \in 1..Len(tokens) : tokens[i] = Explain
       IN  /\ asked => trial.out.path = "explain"
           /\ ~asked => trial.out.path = "normal"

\* C28: on the normal scoring path the scoring model is invoked at least once
\* and at most twice per answer; the first attempt whose output holds a valid
\* number ends the loop and gives the score (rounded to 2 decimals), and the
\* fallback heuristic is used only after both attempts gave no valid number.
C28_AtMostOneRetryFirstNumberWins ==
  /\ (trial.fn = "handle" /\ trial.out.path = "normal")
       => trial.out.scoreCalls = 1 /\ trial.out.llmCalls \in 1..2
  /\ trial.fn = "score"
       => LET number(k) == ExtractScore(CallLlm(trial.kind, trial.llm[k]).text)
              calls == trial.out.calls
              cent == Scale \div 100
          IN  /\ calls \in 1..2
              /\ (~CallLlm(trial.kind, trial.llm[1]).raised /\ ~number(1).none)
                   => calls = 1 /\ trial.out.by = "llm"
              /\ trial.out.by = "llm"
                   => /\ ~number(calls).none
                      /\ \A j \in 1..(calls - 1) : number(j).none
                      /\ trial.out.score % cent = 0
                      /\ 2 * (trial.out.score - number(calls).val) <= cent
                      /\ 2 * (number(calls).val - trial.out.score) <= cent
              /\ trial.out.by = "heuristic"
                   => calls = 2 /\ number(1).none /\ number(2).none

\* the model said "100" at the first attempt and "7" at the retry: two
\* invocations, score 7.0
C28_Witness ==
  /\ trial.fn = "score"
  /\ trial.llm[1] = [raises |-> FALSE, text |-> <<"1","0","0">>]
  /\ trial.llm[2] = [raises |-> FALSE, text |-> <<"7">>]
  /\ trial.out.calls = 2
  /\ trial.out.by = "llm"
  /\ trial.out.score = 7 * Scale

\* C29: through any uploads (also those that fail after the session's
\* candidate id was replaced) and submissions, the candidate id, the question
\* set and the cursor of a session belong to one candidate; every persisted
\* record carries the id of a candidate that was created, and its question is
\* the one of that candidate's assigned set at the position counted from that
\* candidate's own earlier records.
C29_SessionBelongsToOneCandidate ==
  /\ \A s \in Sessions :
       session[s].candidate_id # NoCid
         => /\ session[s].candidate_id \in DOMAIN candidates
            /\ session[s].questions = assigned[session[s].candidate_id]
  /\ \A n \in 1..Len(answers) :
       LET cid == answers[n].candidate_id
           k == Len(GetCandidateAnswers(SubSeq(answers, 1, n), cid))
       IN  /\ cid \in DOMAIN candidates
           /\ k <= Len(assigned[cid])
           /\ answers[n].question = assigned[cid][k]

====
